---------------------------- MODULE Spec2Model ----------------------------
(***************************************************************************)
(* A model of news_monitor.py: the China policy news monitor.              *)
(*                                                                         *)
(* Text is modelled by TLA+ strings, handled character by character with   *)
(* Len and SubSeq, so that Python's substring test (kw in text), lower()   *)
(* and the country-pair regular expressions are computed, not assumed.     *)
(***************************************************************************)
EXTENDS Integers, Sequences, FiniteSets, TLC

VARIABLES
    cl_pc,          \* classifier harness: "input", "classified", "scored"
    cl_title,       \* the title given to the classifier / rule scorer
    cl_summary,     \* the summary given to the classifier / rule scorer
    cl_relevant,    \* result of is_china_policy_related
    cl_score,       \* result of get_rule_based_score (a dict), or None
    sc_pc,          \* get_ai_analysis: "groq", "ollama", "hf", "rule", "done", "raised"
    sc_title,       \* the title given to get_ai_analysis
    sc_summary,     \* the summary given to get_ai_analysis
    sc_env,         \* which API keys the environment sets
    sc_attempt,     \* analyze_article_with_groq: the loop variable attempt
    sc_log,         \* requests sent and sleeps taken, in order
    sc_result,      \* what get_ai_analysis returned, or None
    so_pc,          \* filter_and_analyze_articles: "input", "done", "raised"
    so_articles,    \* the list given to filter_and_analyze_articles
    so_worlds,      \* per article, the replies the services give during its analysis
    so_result,      \* the list filter_and_analyze_articles returned
    f_pc,           \* fetch_news: "polling", "done"
    f_next,         \* index into feeds of the next feed to poll
    f_dateutil,     \* HAS_DATEUTIL
    f_all,          \* all_articles
    f_failed,       \* the feeds whose iteration ended in the except clause
    f_result,       \* what fetch_news returned
    f_polled,       \* per feed polled, what the request for it brought
    pc,             \* main: where the run stands
    run,            \* the number of the run
    file,           \* processed_articles.json
    processed_articles, \* main's set of processed links
    loaded,         \* the set load_processed_articles returned to this run
    all_articles,   \* what fetch_news returned to main
    china_articles, \* what filter_and_analyze_articles returned to main
    new_articles,   \* the articles not processed before
    send_email,     \* this run's call of send_email: its argument and outcome
    io_log,         \* this run's file reads, fetches, sends and file writes, in order
    persisted,      \* this run has written its set to the file
    previous,       \* of the run before: the articles it fetched, whether it persisted its set
    unsent          \* the links earlier runs found new, could not mail, and wrote to the file

clVars == <<cl_pc, cl_title, cl_summary, cl_relevant, cl_score>>
scVars == <<sc_pc, sc_title, sc_summary, sc_env, sc_attempt, sc_log, sc_result>>

soVars == <<so_pc, so_articles, so_worlds, so_result>>

fVars == <<f_pc, f_next, f_dateutil, f_all, f_failed, f_result, f_polled>>

mVars == <<pc, run, file, processed_articles, loaded, all_articles, china_articles,
           new_articles, send_email, io_log, persisted, previous, unsent>>

vars == <<clVars, scVars, soVars, fVars, mVars>>

\* the variables outside each component
ClOthers == <<scVars, soVars, fVars, mVars>>
ScOthers == <<clVars, soVars, fVars, mVars>>
SoOthers == <<clVars, scVars, fVars, mVars>>
FOthers == <<clVars, scVars, soVars, mVars>>
MOthers == <<clVars, scVars, soVars, fVars>>

(***************************************************************************)
(* Python / JSON values.  Every value carries its type in field k.         *)
(***************************************************************************)
None == [k |-> "None"]
IntVal(n) == [k |-> "int", n |-> n]
\* a float that is the quotient num / den of two integers (den > 0)
FloatVal(num, den) == [k |-> "float", num |-> num, den |-> den]
StrVal(s) == [k |-> "str", s |-> s]
\* a list, of which the model keeps the items
ListVal(items) == [k |-> "list", items |-> items]
\* a dict: d is a function from its keys to their values
DictVal(d) == [k |-> "dict", d |-> d]
EmptyDict == DictVal(<< >>)

IsDict(v) == v.k = "dict"

\* Python truthiness, as tested by  if analysis:
Truthy(v) ==
    CASE v.k = "None"  -> FALSE
      [] v.k = "int"   -> v.n # 0
      [] v.k = "float" -> v.num # 0
      [] v.k = "str"   -> Len(v.s) > 0
      [] v.k = "list"  -> Len(v.items) > 0
      [] v.k = "dict"  -> DOMAIN v.d # {}

HasKey(v, key) == key \in DOMAIN v.d

\* d[key] = val  on a dict
SetItem(v, key, val) ==
    DictVal([x \in DOMAIN v.d \cup {key} |-> IF x = key THEN val ELSE v.d[x]])

(***************************************************************************)
(* Text helpers                                                            *)
(***************************************************************************)
Range(s) == {s[i] : i \in DOMAIN s}

CharAt(text, i) == SubSeq(text, i, i)

UpperChars == "ABCDEFGHIJKLMNOPQRSTUVWXYZ"
LowerChars == "abcdefghijklmnopqrstuvwxyz"
DigitChars == "0123456789"

IsOneOf(c, chars) == \E i \in 1..Len(chars) : CharAt(chars, i) = c

\* str.lower() on one character
LowerChar(c) ==
    IF IsOneOf(c, UpperChars)
    THEN CharAt(LowerChars, CHOOSE i \in 1..Len(UpperChars) : CharAt(UpperChars, i) = c)
    ELSE c

\* str.lower()
RECURSIVE Lower(_)
Lower(s) ==
    IF Len(s) = 0 THEN ""
    ELSE LowerChar(CharAt(s, 1)) \o Lower(SubSeq(s, 2, Len(s)))

\* Python's  kw in text  on strings: kw occurs as a substring of text
Contains(text, kw) ==
    \E i \in 1..(Len(text) - Len(kw) + 1) : SubSeq(text, i, i + Len(kw) - 1) = kw

\* any(kw in text for kw in keywords)
AnyKeywordIn(text, keywords) ==
    \E i \in DOMAIN keywords : Contains(text, keywords[i])

\* regex \w on the (ASCII) texts of the model
IsWordChar(c) ==
    IsOneOf(c, LowerChars) \/ IsOneOf(c, UpperChars) \/ IsOneOf(c, DigitChars) \/ c = "_"

\* regex [\s\-]
IsSpaceOrHyphen(c) == c \in {" ", "\t", "\n", "-"}

\* regex \b at the gap before position i (1 <= i <= Len(text) + 1)
WordBoundary(text, i) ==
    LET before == i > 1 /\ IsWordChar(CharAt(text, i - 1))
        after  == i <= Len(text) /\ IsWordChar(CharAt(text, i))
    IN  before # after

\* re.search(r'\b<a>[\s\-]<b>\b', text)
SearchPair(text, a, b) ==
    \E i \in 1..(Len(text) - (Len(a) + 1 + Len(b)) + 1) :
        /\ WordBoundary(text, i)
        /\ SubSeq(text, i, i + Len(a) - 1) = a
        /\ IsSpaceOrHyphen(CharAt(text, i + Len(a)))
        /\ SubSeq(text, i + Len(a) + 1, i + Len(a) + Len(b)) = b
        /\ WordBoundary(text, i + Len(a) + 1 + Len(b))

\* f"{title} {summary}".lower()
JoinLower(title, summary) == Lower(title \o " " \o summary)

(***************************************************************************)
(* is_china_policy_related                                                 *)
(***************************************************************************)
china_keywords ==
    << "china", "chinese", "beijing", "shanghai", "guangzhou", "shenzhen",
       "xi jinping", "ccp", "communist party", "prc", "peoples republic",
       "mainland china", "sino-" >>

policy_keywords ==
    << "trade", "tariff", "import", "export", "economy", "economic", "gdp",
       "investment", "market", "stock", "yuan", "renminbi", "currency",
       "inflation", "growth", "manufacturing", "supply chain",
       "technology", "tech", "semiconductor", "chip", "ai", "artificial intelligence",
       "huawei", "tencent", "alibaba", "baidu", "bytedance", "tiktok",
       "electric vehicle", "ev", "battery", "solar", "renewable",
       "policy", "diplomacy", "diplomatic", "foreign policy", "sanctions",
       "biden", "trump", "us-china", "america", "european union", "nato",
       "g7", "g20", "wto", "world bank", "imf",
       "taiwan", "hong kong", "macau", "tibet", "xinjiang", "uighur", "uyghur",
       "south china sea", "east china sea", "belt and road", "bri",
       "government", "regulation", "law", "legal", "court", "human rights",
       "democracy", "protest", "covid", "pandemic", "lockdown", "zero covid",
       "environment", "climate", "carbon", "emission", "pollution" >>

\* each pair <<a, b>> stands for the pattern \b a [\s\-] b \b
country_china_patterns ==
    << <<"us", "china">>, <<"china", "us">>,
       <<"europe", "china">>, <<"china", "europe">>,
       <<"india", "china">>, <<"china", "india">>,
       <<"japan", "china">>, <<"china", "japan">> >>

has_china(text) == AnyKeywordIn(text, china_keywords)

has_policy(text) == AnyKeywordIn(text, policy_keywords)

has_relation(text) ==
    \E i \in DOMAIN country_china_patterns :
        SearchPair(text, country_china_patterns[i][1], country_china_patterns[i][2])

is_china_policy_related(title, summary) ==
    LET text == JoinLower(title, summary)
    IN  has_china(text) /\ (has_policy(text) \/ has_relation(text))

(***************************************************************************)
(* get_rule_based_score                                                    *)
(***************************************************************************)
high_keywords == << "war", "conflict", "sanctions", "trade war", "military", "nuclear", "crisis" >>
medium_keywords == << "policy", "agreement", "meeting", "summit", "negotiate", "deal" >>

trade_keywords == << "trade", "tariff", "export", "import" >>
military_keywords == << "military", "defense", "weapon" >>
tech_keywords == << "tech", "ai", "chip", "semiconductor" >>

base_score == 5
high_weight == 2
medium_weight == 1
score_cap == 10

Min(a, b) == IF a <= b THEN a ELSE b

\* sum(w for keyword in keywords if keyword in text)
KeywordScore(text, keywords, w) ==
    w * Cardinality({i \in DOMAIN keywords : Contains(text, keywords[i])})

\* mutant: the Technology test placed before the Military test
RuleCategory_TechFirst(text) ==
    IF AnyKeywordIn(text, trade_keywords) THEN "Trade"
    ELSE IF AnyKeywordIn(text, tech_keywords) THEN "Technology"
    ELSE IF AnyKeywordIn(text, military_keywords) THEN "Military"
    ELSE "Other"

\* The if / elif chain that determines the category, in the order of the code.
RuleCategory(text) ==
    IF AnyKeywordIn(text, trade_keywords) THEN "Trade"
    ELSE IF AnyKeywordIn(text, military_keywords) THEN "Military"
    ELSE IF AnyKeywordIn(text, tech_keywords) THEN "Technology"
    ELSE "Other"

get_rule_based_score(title, summary) ==
    LET text == JoinLower(title, summary)
        high_score == KeywordScore(text, high_keywords, high_weight)
        medium_score == KeywordScore(text, medium_keywords, medium_weight)
        importance == Min(score_cap, base_score + high_score + medium_score)
    IN  DictVal([ relevance_score  |-> IntVal(importance),
                  importance_score |-> IntVal(importance),
                  category         |-> StrVal(RuleCategory(text)),
                  ai_source        |-> StrVal("rule_based") ])

(***************************************************************************)
(* The <<title, summary>> pairs of the articles the model feeds to the     *)
(* pipeline.  The classifier and the rule-based scorer are pure functions  *)
(* of the text; their values on these pairs are tabulated, so that each is *)
(* computed once and not once per state.                                   *)
(***************************************************************************)
TradeTalks == <<"US-China trade talks resume", "tariffs discussed">>
TradeTalksUpdated == <<"US-China trade talks resume", "Ministry of Commerce announced new tariffs">>
NuclearCrisis == <<"Nuclear war crisis", "sanctions military conflict">>
PandaBorn == <<"China panda born", "zoo celebrates">>
FashionWeek == <<"Paris fashion week", "zoo celebrates">>

ModelTexts == {TradeTalks, TradeTalksUpdated, NuclearCrisis, PandaBorn, FashionWeek}

relevance_table == [t \in ModelTexts |-> is_china_policy_related(t[1], t[2])]

rule_score_table == [t \in ModelTexts |-> get_rule_based_score(t[1], t[2])]

\* the call is_china_policy_related(title, summary)
IsRelated(title, summary) ==
    IF <<title, summary>> \in ModelTexts THEN relevance_table[<<title, summary>>]
    ELSE is_china_policy_related(title, summary)

\* the call get_rule_based_score(title, summary)
RuleScoreOf(title, summary) ==
    IF <<title, summary>> \in ModelTexts THEN rule_score_table[<<title, summary>>]
    ELSE get_rule_based_score(title, summary)

(***************************************************************************)
(* Replies of the external services.                                       *)
(*   [t |-> "conn_error"]  requests.exceptions.ConnectionError             *)
(*   [t |-> "exception"]   any other exception of requests.post (timeout)  *)
(*   [t |-> "response", status_code |-> c, body |-> b]                     *)
(* A body [b |-> "malformed"] is one on which the handler's own access     *)
(* (response.json()[...]...) raises.                                       *)
(***************************************************************************)
ConnError == [t |-> "conn_error"]
Exception == [t |-> "exception"]
Response(code, body) == [t |-> "response", status_code |-> code, body |-> body]
Malformed == [b |-> "malformed"]

\* text that json.loads rejects
Invalid == [k |-> "invalid"]

\* The message content of a Groq reply, by what the parsing code sees in it:
\*   "json"    the content is JSON text; inner is its value
\*   "fenced"  not JSON, but holds a ```json ... ``` block with text inner
\*   "braces"  not JSON, no fenced block, but holds { ... } with text inner
\*   "text"    none of these
GroqContent(form, inner) == [b |-> "content", form |-> form, inner |-> inner]

max_retries == 3
retry_delay == 2

Return(v) == [o |-> "return", v |-> v]
Except == [o |-> "except"]
FallThrough == [o |-> "fallthrough"]

\* One iteration of the retry loop of analyze_article_with_groq: it returns a
\* value, ends in the except clause, or falls through to the next iteration.
groq_attempt(reply) ==
    IF reply.t # "response" THEN Except
    ELSE IF reply.status_code # 200 THEN FallThrough
    ELSE IF reply.body.b = "malformed" THEN Except
    ELSE LET form == reply.body.form
             inner == reply.body.inner
         IN  IF form = "json" THEN Return(inner)
             ELSE IF form \in {"fenced", "braces"}
                  THEN IF inner = Invalid THEN Except ELSE Return(inner)
                  ELSE FallThrough

\* the retry loop from iteration attempt on, replies[attempt + 1] being the
\* reply to the request of that iteration
RECURSIVE groq_loop(_, _)
groq_loop(replies, attempt) ==
    IF attempt >= max_retries THEN None
    ELSE LET o == groq_attempt(replies[attempt + 1])
         IN  IF o.o = "return" THEN o.v ELSE groq_loop(replies, attempt + 1)

analyze_article_with_groq(env, replies) ==
    IF ~env.groq_key THEN None ELSE groq_loop(replies, 0)

(***************************************************************************)
(* analyze_article_with_ollama                                             *)
(***************************************************************************)
\* The body of an Ollama reply whose 'response' text yields the matches of
\* (\w+)=(\d+), in order: a sequence of <<name, number>>.
OllamaText(matches) == [b |-> "text", matches |-> matches]

\* scores[name] = int(number) for each match: a later match overwrites
OllamaScores(matches) ==
    [name \in {matches[i][1] : i \in DOMAIN matches} |->
        LET last == CHOOSE i \in DOMAIN matches :
                        /\ matches[i][1] = name
                        /\ \A j \in DOMAIN matches : matches[j][1] = name => j <= i
        IN  matches[last][2]]

RECURSIVE SumValues(_, _)
SumValues(f, keys) ==
    IF keys = {} THEN 0
    ELSE LET x == CHOOSE x \in keys : TRUE
         IN  f[x] + SumValues(f, keys \ {x})

ollama_default_importance == 5

\* min(10, max(1, total / count)): max and min return their first argument
\* unless the other is strictly greater, respectively smaller
ClampAverage(total, count) ==
    IF total <= 1 * count THEN IntVal(1)
    ELSE IF 10 * count <= total THEN IntVal(10)
    ELSE FloatVal(total, count)

analyze_article_with_ollama(reply) ==
    IF reply.t # "response" THEN None
    ELSE IF reply.status_code # 200 THEN None
    ELSE IF reply.body.b = "malformed" THEN None
    ELSE LET scores == OllamaScores(reply.body.matches)
         IN  IF DOMAIN scores = {} THEN None
             ELSE DictVal(
                    [ relevance_score  |-> ClampAverage(SumValues(scores, DOMAIN scores),
                                                        Cardinality(DOMAIN scores)),
                      importance_score |-> IF "importance" \in DOMAIN scores
                                           THEN IntVal(scores["importance"])
                                           ELSE IntVal(ollama_default_importance),
                      source           |-> StrVal("ollama_local") ])

(***************************************************************************)
(* analyze_article_with_huggingface                                        *)
(***************************************************************************)
\* The body of a HuggingFace reply: labels[0] and scores[0], the score given
\* in hundredths.
HfClassification(label, hundredths) ==
    [b |-> "classification", label |-> label, hundredths |-> hundredths]

importance_map ==
    [ x \in { "highly important international politics", "military and security",
              "trade and economics", "technology and innovation",
              "diplomatic relations", "routine news" } |->
        CASE x = "highly important international politics" -> 9
          [] x = "military and security" -> 8
          [] x = "trade and economics" -> 7
          [] x = "technology and innovation" -> 7
          [] x = "diplomatic relations" -> 6
          [] x = "routine news" -> 4 ]

hf_default_importance == 5
hf_relevance_offset == 3

\* int(x): truncation toward zero, of the quotient a / b (b > 0)
TruncDiv(a, b) == IF a >= 0 THEN a \div b ELSE -((-a) \div b)

\* str.replace(old, "")
RECURSIVE Remove(_, _)
Remove(s, old) ==
    IF Len(s) < Len(old) \/ Len(s) = 0 THEN s
    ELSE IF SubSeq(s, 1, Len(old)) = old
         THEN Remove(SubSeq(s, Len(old) + 1, Len(s)), old)
         ELSE CharAt(s, 1) \o Remove(SubSeq(s, 2, Len(s)), old)

UpperChar(c) ==
    IF IsOneOf(c, LowerChars)
    THEN CharAt(UpperChars, CHOOSE i \in 1..Len(LowerChars) : CharAt(LowerChars, i) = c)
    ELSE c

IsLetter(c) == IsOneOf(c, LowerChars) \/ IsOneOf(c, UpperChars)

\* str.title(): a letter that follows a non-letter is upper-cased, any other
\* letter lower-cased
RECURSIVE TitleFrom(_, _)
TitleFrom(s, afterLetter) ==
    IF Len(s) = 0 THEN ""
    ELSE LET c == CharAt(s, 1)
         IN  (IF afterLetter THEN LowerChar(c) ELSE UpperChar(c))
                \o TitleFrom(SubSeq(s, 2, Len(s)), IsLetter(c))

Title(s) == TitleFrom(s, FALSE)

analyze_article_with_huggingface(env, reply) ==
    IF ~env.hf_key THEN None
    ELSE IF reply.t # "response" THEN None
    ELSE IF reply.status_code # 200 THEN None
    ELSE IF reply.body.b = "malformed" THEN None
    ELSE LET top_label == reply.body.label
             hundredths == reply.body.hundredths
         IN  DictVal(
               [ relevance_score  |-> IntVal(Min(10, TruncDiv(hundredths, 10) + hf_relevance_offset)),
                 importance_score |-> IntVal(IF top_label \in DOMAIN importance_map
                                             THEN importance_map[top_label]
                                             ELSE hf_default_importance),
                 category         |-> StrVal(Title(Remove(top_label, "highly important "))),
                 confidence       |-> FloatVal(hundredths, 100) ])

(***************************************************************************)
(* get_ai_analysis                                                         *)
(***************************************************************************)
Returned(v) == [raised |-> FALSE, v |-> v]
Raised == [raised |-> TRUE, v |-> None]

\* analysis['ai_source'] = source; return analysis
\* Item assignment raises TypeError on anything but a dict.
TagSource(analysis, source) ==
    IF IsDict(analysis)
    THEN Returned(SetItem(analysis, "ai_source", StrVal(source)))
    ELSE Raised

\* world: the environment's keys and the replies each service would give
get_ai_analysis(title, summary, world) ==
    LET groq == analyze_article_with_groq(world.env, world.groq)
        ollama == analyze_article_with_ollama(world.ollama)
        hf == analyze_article_with_huggingface(world.env, world.hf)
    IN  IF Truthy(groq) THEN TagSource(groq, "groq")
        ELSE IF Truthy(ollama) THEN TagSource(ollama, "ollama")
        ELSE IF Truthy(hf) THEN TagSource(hf, "huggingface")
        ELSE Returned(RuleScoreOf(title, summary))

(***************************************************************************)
(* get_ai_analysis, step by step: one action per request to a service.     *)
(***************************************************************************)
ScoreDict(relevance, importance) ==
    DictVal([ relevance_score  |-> relevance,
              importance_score |-> importance,
              category         |-> StrVal("Trade") ])

\* values the content of a Groq reply may parse to
GroqValues ==
    { None, IntVal(7), StrVal("important"), ListVal(<<IntVal(8), IntVal(9)>>), EmptyDict,
      ScoreDict(IntVal(7), IntVal(8)),
      ScoreDict(IntVal(15), IntVal(8)),
      ScoreDict(IntVal(7), IntVal(-1)),
      ScoreDict(FloatVal(15, 2), IntVal(8)),
      ScoreDict(IntVal(7), StrVal("high")),
      DictVal([category |-> StrVal("Trade")]) }

GroqReplies ==
    { ConnError, Exception, Response(500, Malformed), Response(200, Malformed),
      Response(200, GroqContent("text", Invalid)),
      Response(200, GroqContent("fenced", Invalid)),
      Response(200, GroqContent("fenced", ScoreDict(IntVal(7), IntVal(8)))),
      Response(200, GroqContent("braces", Invalid)),
      Response(200, GroqContent("braces", ScoreDict(IntVal(7), IntVal(8)))) }
    \cup { Response(200, GroqContent("json", v)) : v \in GroqValues }

OllamaReplies ==
    { ConnError, Exception, Response(404, Malformed), Response(200, Malformed),
      Response(200, OllamaText(<< >>)),
      Response(200, OllamaText(<< <<"importance", 8>>, <<"economic", 7>>, <<"global", 6>> >>)),
      Response(200, OllamaText(<< <<"importance", 8>>, <<"economic", 7>> >>)),
      Response(200, OllamaText(<< <<"importance", 99>> >>)),
      Response(200, OllamaText(<< <<"importance", 0>> >>)),
      Response(200, OllamaText(<< <<"economic", 7>>, <<"economic", 9>> >>)) }

HfReplies ==
    { ConnError, Exception, Response(503, Malformed), Response(200, Malformed),
      Response(200, HfClassification("highly important international politics", 95)),
      Response(200, HfClassification("routine news", 40)),
      Response(200, HfClassification("sports", 57)),
      Response(200, HfClassification("trade and economics", -50)) }

Envs == [groq_key : BOOLEAN, hf_key : BOOLEAN]

ScTexts == {TradeTalks, NuclearCrisis, PandaBorn}

ScInit ==
    /\ sc_pc = "groq"
    /\ \E t \in ScTexts : sc_title = t[1] /\ sc_summary = t[2]
    /\ sc_env \in Envs
    /\ sc_attempt = 0
    /\ sc_log = << >>
    /\ sc_result = None

\* the entry of sc_log for a strategy handing a truthy value to get_ai_analysis
Handed(analysis) == IF Truthy(analysis) THEN <<"result">> ELSE << >>

\* mutant: a truthy value is kept but the later strategies are tried all the same
AfterStrategy_NoStop(analysis, source, next) ==
    /\ sc_pc' = next
    /\ sc_result' = None

\* what get_ai_analysis does with the value a strategy returned: a truthy one
\* is tagged and returned, a falsy one passes control to the next strategy
AfterStrategy(analysis, source, next) ==
    IF Truthy(analysis)
    THEN LET r == TagSource(analysis, source)
         IN  /\ sc_pc' = IF r.raised THEN "raised" ELSE "done"
             /\ sc_result' = r.v
    ELSE /\ sc_pc' = next
         /\ sc_result' = None

\* analyze_article_with_groq returns None at once when GROQ_API_KEY is unset
GroqNoKey ==
    /\ sc_pc = "groq"
    /\ ~sc_env.groq_key
    /\ AfterStrategy(None, "groq", "ollama")
    /\ UNCHANGED <<sc_title, sc_summary, sc_env, sc_attempt, sc_log>>
    /\ UNCHANGED ScOthers

\* one iteration of the retry loop
GroqAttempt ==
    /\ sc_pc = "groq"
    /\ sc_env.groq_key
    /\ sc_attempt < max_retries
    /\ \E reply \in GroqReplies :
         LET o == groq_attempt(reply)
             sleeps == o.o = "except" /\ sc_attempt < max_retries - 1
             last == sc_attempt + 1 >= max_retries
         IN  /\ sc_log' = sc_log \o <<"groq_request">>
                                 \o (IF sleeps THEN <<"sleep">> ELSE << >>)
                                 \o (IF o.o = "return" THEN Handed(o.v) ELSE << >>)
             /\ sc_attempt' = sc_attempt + 1
             /\ IF o.o = "return" THEN AfterStrategy(o.v, "groq", "ollama")
                ELSE IF last THEN AfterStrategy(None, "groq", "ollama")
                ELSE /\ sc_pc' = "groq"
                     /\ sc_result' = None
    /\ UNCHANGED <<sc_title, sc_summary, sc_env>>
    /\ UNCHANGED ScOthers

OllamaCall ==
    /\ sc_pc = "ollama"
    /\ \E reply \in OllamaReplies :
         LET analysis == analyze_article_with_ollama(reply)
         IN  /\ AfterStrategy(analysis, "ollama", "hf")
             /\ sc_log' = sc_log \o <<"ollama_request">> \o Handed(analysis)
    /\ UNCHANGED <<sc_title, sc_summary, sc_env, sc_attempt>>
    /\ UNCHANGED ScOthers

\* analyze_article_with_huggingface returns None at once without its key
HfNoKey ==
    /\ sc_pc = "hf"
    /\ ~sc_env.hf_key
    /\ AfterStrategy(None, "huggingface", "rule")
    /\ UNCHANGED <<sc_title, sc_summary, sc_env, sc_attempt, sc_log>>
    /\ UNCHANGED ScOthers

HfCall ==
    /\ sc_pc = "hf"
    /\ sc_env.hf_key
    /\ \E reply \in HfReplies :
         LET analysis == analyze_article_with_huggingface(sc_env, reply)
         IN  /\ AfterStrategy(analysis, "huggingface", "rule")
             /\ sc_log' = sc_log \o <<"hf_request">> \o Handed(analysis)
    /\ UNCHANGED <<sc_title, sc_summary, sc_env, sc_attempt>>
    /\ UNCHANGED ScOthers

RuleBased ==
    /\ sc_pc = "rule"
    /\ sc_result' = RuleScoreOf(sc_title, sc_summary)
    /\ sc_pc' = "done"
    /\ UNCHANGED <<sc_title, sc_summary, sc_env, sc_attempt, sc_log>>
    /\ UNCHANGED ScOthers

ScIdle ==
    /\ sc_pc = "idle"
    /\ sc_title = ""
    /\ sc_summary = ""
    /\ sc_env = [groq_key |-> FALSE, hf_key |-> FALSE]
    /\ sc_attempt = 0
    /\ sc_log = << >>
    /\ sc_result = None

ClIdle ==
    /\ cl_pc = "idle"
    /\ cl_title = ""
    /\ cl_summary = ""
    /\ cl_relevant = FALSE
    /\ cl_score = None

ScNext ==
    \/ GroqNoKey
    \/ GroqAttempt
    \/ OllamaCall
    \/ HfNoKey
    \/ HfCall
    \/ RuleBased

(***************************************************************************)
(* The sort key of filter_and_analyze_articles,                            *)
(*     importance_score * 0.6 + relevance_score * 0.4,                     *)
(* in IEEE 754 double arithmetic.  A double is kept as the natural number  *)
(* of units of 2^-54 it amounts to, written in three limbs of 20 bits,     *)
(* least significant first; products and sums are formed exactly and then  *)
(* rounded to 53 significant bits, ties to even.                           *)
(***************************************************************************)
LimbBase == 2^20

\* 0.6 = 0x1.3333333333333p-1 and 0.4 = 0x1.999999999999ap-2, in units of 2^-54
point6 == <<419430, 419430, 9830>>
point4 == <<629146, 629145, 6553>>

\* carry propagation
Normalise(a) ==
    LET t1 == a[2] + a[1] \div LimbBase
    IN  <<a[1] % LimbBase, t1 % LimbBase, a[3] + t1 \div LimbBase>>

RECURSIVE BitLength(_)
BitLength(n) == IF n = 0 THEN 0 ELSE 1 + BitLength(n \div 2)

BigBitLength(a) ==
    IF a[3] > 0 THEN 40 + BitLength(a[3])
    ELSE IF a[2] > 0 THEN 20 + BitLength(a[2])
    ELSE BitLength(a[1])

\* round to nearest double, ties to even
RoundDouble(a) ==
    LET len == BigBitLength(a)
    IN  IF len <= 53 THEN a
        ELSE LET p == 2^(len - 53)
                 r == a[1] % p
                 odd == (a[1] \div p) % 2 = 1
                 up == 2 * r > p \/ (2 * r = p /\ odd)
             IN  Normalise(<<a[1] - r + (IF up THEN p ELSE 0), a[2], a[3]>>)

\* n * m for an int n >= 0 and a double m
FloatMul(n, m) == RoundDouble(Normalise(<<n * m[1], n * m[2], n * m[3]>>))

FloatAdd(a, b) == RoundDouble(Normalise(<<a[1] + b[1], a[2] + b[2], a[3] + b[3]>>))

FloatLess(a, b) ==
    \/ a[3] < b[3]
    \/ a[3] = b[3] /\ a[2] < b[2]
    \/ a[3] = b[3] /\ a[2] = b[2] /\ a[1] < b[1]

\* x.get(key, 0) on an article
ArticleGet(article, key) ==
    IF key \in DOMAIN article THEN article[key] ELSE IntVal(0)

\* The key is computed for int scores >= 0; any other number is outside the
\* inputs of the model, and a score that is no number makes the key raise.
KeyRaises(article) ==
    \E key \in {"importance_score", "relevance_score"} :
        ArticleGet(article, key).k \notin {"int", "float"}

\* the lambda of filtered_articles.sort
SortKey(article) ==
    FloatAdd(FloatMul(ArticleGet(article, "importance_score").n, point6),
             FloatMul(ArticleGet(article, "relevance_score").n, point4))

\* list.sort(key=..., reverse=True) is stable: an item goes before the first
\* item of strictly smaller key
InsertDescending(sorted, item) ==
    LET smaller == {i \in DOMAIN sorted : FloatLess(SortKey(sorted[i]), SortKey(item))}
        at == IF smaller = {} THEN Len(sorted) + 1
              ELSE CHOOSE i \in smaller : \A j \in smaller : i <= j
    IN  SubSeq(sorted, 1, at - 1) \o <<item>> \o SubSeq(sorted, at, Len(sorted))

RECURSIVE SortDescending(_)
SortDescending(list) ==
    IF Len(list) = 0 THEN << >>
    ELSE InsertDescending(SortDescending(SubSeq(list, 1, Len(list) - 1)), list[Len(list)])

(***************************************************************************)
(* filter_and_analyze_articles                                             *)
(***************************************************************************)
\* article.update(analysis)
Update(article, analysis) ==
    [x \in DOMAIN article \cup DOMAIN analysis.d |->
        IF x \in DOMAIN analysis.d THEN analysis.d[x] ELSE article[x]]

\* The loop over articles[from..]: worlds[i] holds the replies the services
\* give while articles[i] is analysed.  Its value is the list
\* filtered_articles, or Raised when get_ai_analysis raises.
RECURSIVE FilterLoop(_, _, _, _)
FilterLoop(articles, worlds, from, filtered_articles) ==
    IF from > Len(articles) THEN Returned(filtered_articles)
    ELSE LET article == articles[from]
         IN  IF IsRelated(article.title, article.summary)
             THEN LET ai_analysis == get_ai_analysis(article.title, article.summary,
                                                     worlds[from])
                  IN  IF ai_analysis.raised THEN Raised
                      ELSE LET scored ==
                                 IF Truthy(ai_analysis.v)
                                 THEN Update(article, ai_analysis.v)
                                 ELSE Update(article,
                                        RuleScoreOf(article.title, article.summary))
                           IN  FilterLoop(articles, worlds, from + 1,
                                          Append(filtered_articles, scored))
             ELSE FilterLoop(articles, worlds, from + 1, filtered_articles)

filter_and_analyze_articles(articles, worlds) ==
    LET filtered == FilterLoop(articles, worlds, 1, << >>)
    IN  IF filtered.raised THEN Raised
        ELSE IF \E i \in DOMAIN filtered.v : KeyRaises(filtered.v[i])
             THEN Raised
             ELSE Returned(SortDescending(filtered.v))

(***************************************************************************)
(* filter_and_analyze_articles applied to sample article lists.            *)
(***************************************************************************)
Article(title, link, summary, source) ==
    [ title |-> title, link |-> link, summary |-> summary,
      published |-> 0, source |-> source, hours_ago |-> 0 ]

\* a world in which Groq answers at once with the given JSON value
GroqAnswers(v) ==
    [ env    |-> [groq_key |-> TRUE, hf_key |-> FALSE],
      groq   |-> <<Response(200, GroqContent("json", v))>>,
      ollama |-> ConnError,
      hf     |-> ConnError ]

\* a world in which no service is available: the rule-based scorer decides
NoService ==
    [ env    |-> [groq_key |-> FALSE, hf_key |-> FALSE],
      groq   |-> << >>,
      ollama |-> ConnError,
      hf     |-> ConnError ]

MaxArticles == 3

SoArticles ==
    { Article(TradeTalks[1], "https://news.example/a", TradeTalks[2], "Reuters World"),
      Article(FashionWeek[1], "https://news.example/c", FashionWeek[2], "BBC World") }

\* <<importance, relevance>> pairs Groq answers with
SoScorePairs == { <<6, 0>>, <<0, 9>>, <<2, 6>>, <<8, 7>> }

SoWorlds ==
    { GroqAnswers(ScoreDict(IntVal(p[2]), IntVal(p[1]))) : p \in SoScorePairs }
        \cup { NoService, GroqAnswers(ListVal(<<IntVal(8), IntVal(9)>>)) }

SoInit ==
    /\ so_pc = "input"
    /\ \E n \in 0..MaxArticles :
         /\ so_articles \in [1..n -> SoArticles]
         /\ so_worlds \in [1..n -> SoWorlds]
    /\ so_result = << >>

FilterAndAnalyze ==
    /\ so_pc = "input"
    /\ LET r == filter_and_analyze_articles(so_articles, so_worlds)
       IN  /\ so_pc' = IF r.raised THEN "raised" ELSE "done"
           /\ so_result' = IF r.raised THEN << >> ELSE r.v
    /\ UNCHANGED <<so_articles, so_worlds>>
    /\ UNCHANGED SoOthers

SoIdle ==
    /\ so_pc = "idle"
    /\ so_articles = << >>
    /\ so_worlds = << >>
    /\ so_result = << >>

SoNext == FilterAndAnalyze

(***************************************************************************)
(* fetch_news                                                              *)
(*                                                                         *)
(* Time is counted in hours.  An entry's date is described by what the     *)
(* date parsing of fetch_news makes of it:                                 *)
(*   [d |-> "parsed", hours |-> h]  a *_parsed field gives a naive         *)
(*                                  datetime, h hours before now           *)
(*   [d |-> "naive", hours |-> h]   only a date string, which dateutil     *)
(*                                  parses to a naive datetime             *)
(*   [d |-> "aware", hours |-> h]   only a date string, which dateutil     *)
(*                                  parses to a timezone-aware datetime    *)
(*   [d |-> "none"]                 no date field can be parsed            *)
(* The field published holds the time itself: the text strftime makes of   *)
(* it ('%Y-%m-%d %H:%M UTC') sorts as the time does.                       *)
(***************************************************************************)
all_feeds ==
    << "Reuters World", "Reuters Business", "BBC World", "BBC Asia",
       "CNN International", "AP News International", "Financial Times World",
       "Wall Street Journal World", "Bloomberg Politics", "Economic Times World",
       "South China Morning Post", "Japan Times", "Straits Times Asia", "Nikkei Asia",
       "Foreign Affairs", "Politico", "The Guardian World", "NPR World" >>

\* the model polls the first NumFeeds feeds of the list
NumFeeds == 2
feeds == SubSeq(all_feeds, 1, Min(NumFeeds, Len(all_feeds)))

MaxEntries == 3

recency_hours == 24
max_articles_per_source == 3
diversity_per_source == 2
diversity_floor == 5

\* the present moment, in hours
Now == 1000

cutoff_date == Now - recency_hours

NoDate == [d |-> "none"]

\* pub_date after the two parsing loops: a datetime or NoDate
ParseDate(entry, has_dateutil) ==
    IF entry.date.d = "parsed" THEN [d |-> "naive", at |-> Now - entry.date.hours]
    ELSE IF entry.date.d \in {"naive", "aware"} /\ has_dateutil
         THEN [d |-> entry.date.d, at |-> Now - entry.date.hours]
         ELSE NoDate

\* pub_date >= cutoff_date raises TypeError when pub_date is timezone-aware
\* (cutoff_date is naive); Python evaluates it only for a truthy pub_date
CompareRaises(pub_date) == pub_date.d = "aware"

\* the summary kept: the full content when it was fetched and is longer
ChooseSummary(entry) ==
    IF entry.full # "" /\ Len(entry.full) > Len(entry.summary) THEN entry.full
    ELSE entry.summary

\* The loop over feed.entries from entry number from on.  Its value holds
\* the articles appended to all_articles and whether an exception left it.
RECURSIVE EntryLoop(_, _, _, _, _, _)
EntryLoop(source_name, entries, from, articles_from_source, has_dateutil, appended) ==
    IF from > Len(entries) \/ articles_from_source >= max_articles_per_source
    THEN [raised |-> FALSE, appended |-> appended]
    ELSE LET entry == entries[from]
             pub_date == ParseDate(entry, has_dateutil)
         IN  IF pub_date = NoDate
             THEN EntryLoop(source_name, entries, from + 1, articles_from_source,
                            has_dateutil, appended)
             ELSE IF CompareRaises(pub_date)
             THEN [raised |-> TRUE, appended |-> appended]
             ELSE IF pub_date.at >= cutoff_date
             THEN EntryLoop(source_name, entries, from + 1, articles_from_source + 1,
                            has_dateutil,
                            Append(appended,
                                   [ title     |-> entry.title,
                                     link      |-> entry.link,
                                     summary   |-> ChooseSummary(entry),
                                     published |-> pub_date.at,
                                     source    |-> source_name,
                                     hours_ago |-> Now - pub_date.at ]))
             ELSE EntryLoop(source_name, entries, from + 1, articles_from_source,
                            has_dateutil, appended)

\* One iteration of the loop over feeds: the try block and its except clause.
PollFeed(source_name, response, has_dateutil) ==
    IF response.t # "response" THEN [raised |-> TRUE, appended |-> << >>]
    ELSE EntryLoop(source_name, response.entries, 1, 0, has_dateutil, << >>)

\* all_articles.sort(key=lambda x: x['published'], reverse=True): stable
InsertByPublished(sorted, item) ==
    LET older == {i \in DOMAIN sorted : sorted[i].published < item.published}
        at == IF older = {} THEN Len(sorted) + 1
              ELSE CHOOSE i \in older : \A j \in older : i <= j
    IN  SubSeq(sorted, 1, at - 1) \o <<item>> \o SubSeq(sorted, at, Len(sorted))

RECURSIVE SortByPublished(_)
SortByPublished(list) ==
    IF Len(list) = 0 THEN << >>
    ELSE InsertByPublished(SortByPublished(SubSeq(list, 1, Len(list) - 1)), list[Len(list)])

CountSource(list, source) == Cardinality({i \in DOMAIN list : list[i].source = source})

\* the loop that limits the articles kept of one source
RECURSIVE Diversify(_, _, _)
Diversify(articles, from, diversified_articles) ==
    IF from > Len(articles) THEN diversified_articles
    ELSE LET article == articles[from]
             keep == \/ CountSource(diversified_articles, article.source) < diversity_per_source
                     \/ Len(diversified_articles) < diversity_floor
         IN  Diversify(articles, from + 1,
                       IF keep THEN Append(diversified_articles, article)
                       ELSE diversified_articles)

(***************************************************************************)
(* fetch_news, one action per feed polled.                                 *)
(***************************************************************************)
DateKinds ==
    { [d |-> "parsed", hours |-> 2], [d |-> "parsed", hours |-> 30],
      [d |-> "aware", hours |-> 3], NoDate }

\* entry number pos of feed number i
Entry(i, pos, date) ==
    [ title   |-> TradeTalks[1],
      link    |-> "https://feed" \o ToString(i) \o ".example/" \o ToString(pos),
      summary |-> TradeTalks[2],
      full    |-> "",
      date    |-> date ]

FeedResponses(i) ==
    { Exception }
        \cup { [t |-> "response", entries |-> [pos \in DOMAIN dates |-> Entry(i, pos, dates[pos])]] :
                 dates \in UNION { [1..n -> DateKinds] : n \in 0..MaxEntries } }

FInit ==
    /\ f_pc = "polling"
    /\ f_next = 1
    /\ f_dateutil \in BOOLEAN
    /\ f_all = << >>
    /\ f_failed = {}
    /\ f_result = << >>
    /\ f_polled = << >>

\* poll feeds[f_next]
FetchFeed ==
    /\ f_pc = "polling"
    /\ f_next <= Len(feeds)
    /\ \E response \in FeedResponses(f_next) :
         LET r == PollFeed(feeds[f_next], response, f_dateutil)
         IN  /\ f_all' = f_all \o r.appended
             /\ f_failed' = IF r.raised THEN f_failed \cup {f_next} ELSE f_failed
             /\ f_polled' = Append(f_polled, response)
    /\ f_next' = f_next + 1
    /\ UNCHANGED <<f_pc, f_dateutil, f_result>>
    /\ UNCHANGED FOthers

\* after the last feed: the sort and the diversity filter; return
FinishFetch ==
    /\ f_pc = "polling"
    /\ f_next > Len(feeds)
    /\ f_result' = Diversify(SortByPublished(f_all), 1, << >>)
    /\ f_pc' = "done"
    /\ UNCHANGED <<f_next, f_dateutil, f_all, f_failed, f_polled>>
    /\ UNCHANGED FOthers

FIdle ==
    /\ f_pc = "idle"
    /\ f_next = 1
    /\ f_dateutil = TRUE
    /\ f_all = << >>
    /\ f_failed = {}
    /\ f_result = << >>
    /\ f_polled = << >>

FNext == FetchFeed \/ FinishFetch

(***************************************************************************)
(* processed_articles.json                                                 *)
(*   [k |-> "missing"]            no such file                             *)
(*   [k |-> "corrupt"]            a file whose content is not JSON         *)
(*   [k |-> "json", v |-> value]  a file holding the JSON text of value    *)
(***************************************************************************)
FileMissing == [k |-> "missing"]
FileCorrupt == [k |-> "corrupt"]
FileJson(v) == [k |-> "json", v |-> v]

\* the characters of a string, as a set
Chars(s) == {CharAt(s, i) : i \in 1..Len(s)}

\* set(value): the items of a list, the keys of a dict, the characters of a
\* string; any other JSON value is not iterable and set() raises TypeError
SetOf(v) ==
    CASE v.k = "list" -> Returned(Range(v.items))
      [] v.k = "dict" -> Returned(DOMAIN v.d)
      [] v.k = "str"  -> Returned(Chars(v.s))
      [] OTHER        -> Raised

\* Only FileNotFoundError is caught: a JSONDecodeError of json.load and a
\* TypeError of set() leave the function.
load_processed_articles(disk) ==
    IF disk.k = "missing" THEN Returned({})
    ELSE IF disk.k = "corrupt" THEN Raised
    ELSE SetOf(disk.v)

\* the sequences that hold each element of S once
Orderings(S) == {order \in [1..Cardinality(S) -> S] : Range(order) = S}

\* an ordering of S and its reverse
Reverse(seq) == [i \in DOMAIN seq |-> seq[Len(seq) + 1 - i]]
TwoOrderings(S) ==
    LET order == CHOOSE order \in Orderings(S) : TRUE
    IN  {order, Reverse(order)}

\* mutant: the file written holds no key
save_processed_articles_Empty(disk, processed, outcome, order) ==
    IF outcome = "written" THEN FileJson(ListVal(<< >>)) ELSE disk

\* The file (disk) after save_processed_articles(processed).  outcome tells how far
\* the write got: "written", "open_failed" (the file is as before) or
\* "write_failed" (opened for writing, hence truncated, and not completed);
\* both exceptions are caught and printed.  order is the order in which
\* list(processed) enumerates the set.
save_processed_articles(disk, processed, outcome, order) ==
    CASE outcome = "written"      -> FileJson(ListVal(order))
      [] outcome = "open_failed"  -> disk
      [] outcome = "write_failed" -> FileCorrupt

SaveOutcomes == {"written", "open_failed", "write_failed"}

(***************************************************************************)
(* main                                                                    *)
(***************************************************************************)
\* mutant: the test  article['link'] not in processed_articles  dropped
DedupLoop_NoTest(china, from, new, processed) ==
    [new_articles |-> china, processed_articles |-> processed \cup {china[i].link : i \in DOMAIN china}]

\* mutant: processed_articles.add(article['link']) dropped
DedupLoop_NoAdd(china, from, new, processed) ==
    [ new_articles |-> SelectSeq(china, LAMBDA article : article.link \notin processed),
      processed_articles |-> processed ]

\* the loop that filters out the articles already processed, from article
\* number from on
RECURSIVE DedupLoop(_, _, _, _)
DedupLoop(china, from, new, processed) ==
    IF from > Len(china) THEN [new_articles |-> new, processed_articles |-> processed]
    ELSE LET article == china[from]
         IN  IF article.link \notin processed
             THEN DedupLoop(china, from + 1, Append(new, article),
                            processed \cup {article.link})
             ELSE DedupLoop(china, from + 1, new, processed)

MaxRuns == 2
MaxFetched == 2

LinkA == "https://news.example/a"
LinkC == "https://news.example/c"

\* what fetch_news may return: two versions of one article (one link, the
\* summary differing) and an article that is not about China policy
FetchPool ==
    { Article(TradeTalks[1], LinkA, TradeTalks[2], "Reuters World"),
      Article(TradeTalksUpdated[1], LinkA, TradeTalksUpdated[2], "Reuters World"),
      Article(FashionWeek[1], LinkC, FashionWeek[2], "BBC World") }

FetchResults == UNION { [1..n -> FetchPool] : n \in 0..MaxFetched }

MainWorlds ==
    { NoService,
      GroqAnswers(ScoreDict(IntVal(9), IntVal(9))),
      GroqAnswers(ListVal(<<IntVal(8), IntVal(9)>>)) }

InitialFiles ==
    { FileMissing, FileCorrupt,
      FileJson(ListVal(<<LinkA>>)),
      FileJson(DictVal([processed |-> ListVal(<<LinkA>>), last_updated |-> StrVal("2025-01-01T00:00:00")])),
      FileJson(IntVal(0)) }

SendOutcomes == {"sent", "skipped", "failed"}

NotCalled == [called |-> FALSE]
CalledWith(articles, outcome) == [called |-> TRUE, articles |-> articles, outcome |-> outcome]

MInit ==
    /\ pc = "start"
    /\ run = 1
    /\ file \in InitialFiles
    /\ processed_articles = {}
    /\ loaded = {}
    /\ all_articles = << >>
    /\ china_articles = << >>
    /\ new_articles = << >>
    /\ send_email = NotCalled
    /\ io_log = << >>
    /\ persisted = FALSE
    /\ previous = [persisted |-> FALSE, fetched |-> {}]
    /\ unsent = {}

\* processed_articles = load_processed_articles()
Load ==
    /\ pc = "start"
    /\ LET r == load_processed_articles(file)
       IN  /\ pc' = IF r.raised THEN "load_raised" ELSE "loaded"
           /\ processed_articles' = IF r.raised THEN {} ELSE r.v
           /\ loaded' = IF r.raised THEN {} ELSE r.v
    /\ io_log' = Append(io_log, "read")
    /\ UNCHANGED <<run, file, all_articles, china_articles, new_articles, send_email,
                   persisted, previous, unsent>>
    /\ UNCHANGED MOthers

\* all_articles = fetch_news()
Fetch ==
    /\ pc = "loaded"
    /\ \E fetched \in FetchResults :
         /\ all_articles' = fetched
         /\ pc' = IF Len(fetched) = 0 THEN "nothing_fetched" ELSE "fetched"
    /\ io_log' = Append(io_log, "fetch")
    /\ UNCHANGED <<run, file, processed_articles, loaded, china_articles, new_articles,
                   send_email, persisted, previous, unsent>>
    /\ UNCHANGED MOthers

\* if not all_articles: send_email([]); return
SendEmpty ==
    /\ pc = "nothing_fetched"
    /\ \E outcome \in SendOutcomes : send_email' = CalledWith(<< >>, outcome)
    /\ io_log' = Append(io_log, "send")
    /\ pc' = "finished"
    /\ UNCHANGED <<run, file, processed_articles, loaded, all_articles, china_articles,
                   new_articles, persisted, previous, unsent>>
    /\ UNCHANGED MOthers

\* china_articles = filter_and_analyze_articles(all_articles)
Filter ==
    /\ pc = "fetched"
    /\ \E worlds \in [DOMAIN all_articles -> MainWorlds] :
         LET r == filter_and_analyze_articles(all_articles, worlds)
         IN  /\ pc' = IF r.raised THEN "filter_raised" ELSE "filtered"
             /\ china_articles' = IF r.raised THEN << >> ELSE r.v
    /\ UNCHANGED <<run, file, processed_articles, loaded, all_articles, new_articles,
                   send_email, io_log, persisted, previous, unsent>>
    /\ UNCHANGED MOthers

\* the loop that filters out the already processed articles
Dedup ==
    /\ pc = "filtered"
    /\ LET r == DedupLoop(china_articles, 1, << >>, processed_articles)
       IN  /\ new_articles' = r.new_articles
           /\ processed_articles' = r.processed_articles
    /\ pc' = "deduplicated"
    /\ UNCHANGED <<run, file, loaded, all_articles, china_articles, send_email, io_log,
                   persisted, previous, unsent>>
    /\ UNCHANGED MOthers

\* send_email(new_articles): without credentials it returns at once, and an
\* exception of the SMTP exchange is caught and printed
Send ==
    /\ pc = "deduplicated"
    /\ \E outcome \in SendOutcomes : send_email' = CalledWith(new_articles, outcome)
    /\ io_log' = Append(io_log, "send")
    /\ pc' = "emailed"
    /\ UNCHANGED <<run, file, processed_articles, loaded, all_articles, china_articles,
                   new_articles, persisted, previous, unsent>>
    /\ UNCHANGED MOthers

\* save_processed_articles(processed_articles)
Save ==
    /\ pc = "emailed"
    /\ \E outcome \in SaveOutcomes, order \in TwoOrderings(processed_articles) :
         /\ file' = save_processed_articles(file, processed_articles, outcome, order)
         /\ persisted' = (outcome = "written")
    /\ io_log' = Append(io_log, "write")
    /\ pc' = "finished"
    /\ UNCHANGED <<run, processed_articles, loaded, all_articles, china_articles,
                   new_articles, send_email, previous, unsent>>
    /\ UNCHANGED MOthers

\* the process has ended, normally or by an exception; the next scheduled run
\* starts from the file alone
NextRun ==
    /\ pc \in {"finished", "load_raised", "filter_raised"}
    /\ run < MaxRuns
    /\ run' = run + 1
    /\ pc' = "start"
    /\ processed_articles' = {}
    /\ loaded' = {}
    /\ all_articles' = << >>
    /\ china_articles' = << >>
    /\ new_articles' = << >>
    /\ send_email' = NotCalled
    /\ io_log' = << >>
    /\ persisted' = FALSE
    /\ previous' = [persisted |-> persisted, fetched |-> Range(all_articles)]
    /\ unsent' = IF persisted /\ send_email.called /\ send_email.outcome \in {"skipped", "failed"}
                 THEN unsent \cup {new_articles[i].link : i \in DOMAIN new_articles}
                 ELSE unsent
    /\ UNCHANGED file
    /\ UNCHANGED MOthers

MIdle ==
    /\ pc = "idle"
    /\ run = 0
    /\ file = FileMissing
    /\ processed_articles = {}
    /\ loaded = {}
    /\ all_articles = << >>
    /\ china_articles = << >>
    /\ new_articles = << >>
    /\ send_email = NotCalled
    /\ io_log = << >>
    /\ persisted = FALSE
    /\ previous = [persisted |-> FALSE, fetched |-> {}]
    /\ unsent = {}

Next ==
    \/ Load
    \/ Fetch
    \/ SendEmpty
    \/ Filter
    \/ Dedup
    \/ Send
    \/ Save
    \/ NextRun

(***************************************************************************)
(* Classifier harness: the two pure functions applied to sample texts.     *)
(***************************************************************************)
Titles ==
    { "Shanghai Disneyland reopens",
      "US-China trade talks resume",
      "Hong Kong trade deal signed",
      "Beijing unveils AI weapon",
      "China raises tariffs on EU goods",
      "China panda born",
      "Nuclear war crisis",
      "Chinese Semiconductor Export curbs",
      "Japan China summit",
      "Paris fashion week" }

Summaries ==
    { "tourists return",
      "tariffs discussed",
      "Ministry of Commerce announced new tariffs",
      "zoo celebrates",
      "sanctions military conflict",
      "" }

ClInit ==
    /\ cl_pc = "input"
    /\ cl_title \in Titles
    /\ cl_summary \in Summaries
    /\ cl_relevant = FALSE
    /\ cl_score = None

Classify ==
    /\ cl_pc = "input"
    /\ cl_relevant' = is_china_policy_related(cl_title, cl_summary)
    /\ cl_pc' = "classified"
    /\ UNCHANGED <<cl_title, cl_summary, cl_score>>
    /\ UNCHANGED ClOthers

RuleScore ==
    /\ cl_pc = "classified"
    /\ cl_score' = get_rule_based_score(cl_title, cl_summary)
    /\ cl_pc' = "scored"
    /\ UNCHANGED <<cl_title, cl_summary, cl_relevant>>
    /\ UNCHANGED ClOthers

ClNext == Classify \/ RuleScore

InitClassify == ClInit /\ ScIdle /\ SoIdle /\ FIdle /\ MIdle

SpecClassify == InitClassify /\ [][ClNext]_vars

InitScore == ScInit /\ ClIdle /\ SoIdle /\ FIdle /\ MIdle

SpecScore == InitScore /\ [][ScNext]_vars

InitSort == SoInit /\ ClIdle /\ ScIdle /\ FIdle /\ MIdle

SpecSort == InitSort /\ [][SoNext]_vars

InitFetch == FInit /\ ClIdle /\ ScIdle /\ SoIdle /\ MIdle

SpecFetch == InitFetch /\ [][FNext]_vars

Init == MInit /\ ClIdle /\ ScIdle /\ SoIdle /\ FIdle

Spec == Init /\ [][Next]_vars

(***************************************************************************)
(* Properties                                                              *)
(***************************************************************************)
\* no article of list has a link of known, and no two share a link
OnlyNewLinks(list, known) ==
    /\ \A i \in DOMAIN list : list[i].link \notin known
    /\ \A i, j \in DOMAIN list : i # j => list[i].link # list[j].link

\* C1: an article whose link is in the processed set, as loaded from the file
\* or as added earlier in the same run, is never among the new articles
\* passed to send_email, whatever its title and summary.
C1_NoReemission ==
    /\ pc \in {"deduplicated", "emailed", "finished"} => OnlyNewLinks(new_articles, loaded)
    /\ send_email.called => OnlyNewLinks(send_email.articles, loaded)

\* C1 witness: a run that ended after send_email, in which a relevant article
\* had a link loaded from the file that the run before had stored for an
\* article of another summary
C1_Witness ==
    /\ pc = "finished"
    /\ send_email.called
    /\ previous.persisted
    /\ \E i \in DOMAIN china_articles :
         /\ china_articles[i].link \in loaded
         /\ \E article \in previous.fetched :
              /\ article.link = china_articles[i].link
              /\ article.summary # china_articles[i].summary
         /\ \A article \in previous.fetched :
              article.summary # china_articles[i].summary

\* the run follows one that persisted its set, and fetched the same articles
SameFeedAgain ==
    /\ run > 1
    /\ previous.persisted
    /\ Range(all_articles) = previous.fetched

\* C2: a second run on the same fetched articles, with the dedup state the
\* first run persisted, passes no new article to send_email.
C2_Idempotent ==
    (SameFeedAgain /\ send_email.called) => send_email.articles = << >>

\* C2 witness: such a second run, with relevant articles fetched, has called
\* send_email
C2_Witness ==
    /\ SameFeedAgain
    /\ Len(china_articles) > 0
    /\ send_email.called
    /\ send_email.articles = << >>

\* C6: load_processed_articles is best-effort: with the file missing or its
\* content corrupt it returns the empty set, and it never ends the run.
C6_LoadBestEffort ==
    (pc \in {"loaded", "load_raised"} /\ file.k \in {"missing", "corrupt"}) =>
        (pc = "loaded" /\ loaded = {})

\* C7: load_processed_articles accepts both persisted shapes: from a bare
\* array of keys and from an object {processed: [keys], last_updated: ...}
\* it returns exactly the keys stored.
C7_BothShapes ==
    (pc \in {"loaded", "load_raised"} /\ file.k = "json") =>
        /\ file.v.k = "list" => (pc = "loaded" /\ loaded = Range(file.v.items))
        /\ (file.v.k = "dict" /\ "processed" \in DOMAIN file.v.d) =>
              (pc = "loaded" /\ loaded = Range(file.v.d["processed"].items))

ScoreKeys == {"importance_score", "relevance_score"}

InScoreRange(v) == v.k = "int" /\ v.n \in 0..10

\* C3: every result returned by get_ai_analysis, whichever strategy produced
\* it, has importance_score and relevance_score that are integers in 0..10.
C3_ScoresInRange ==
    sc_pc = "done" =>
        \A key \in ScoreKeys : HasKey(sc_result, key) => InScoreRange(sc_result.d[key])

\* a record that carries both scores as numbers
IsScoreRecord(v) ==
    /\ IsDict(v)
    /\ \A key \in ScoreKeys : HasKey(v, key) /\ v.d[key].k \in {"int", "float"}

\* C4: get_ai_analysis never raises, whatever the external services reply,
\* and what it returns is a score record.
C4_NeverRaises ==
    /\ sc_pc # "raised"
    /\ sc_pc = "done" => IsScoreRecord(sc_result)

\* C8: is_china_policy_related is a conjunctive gate: a China term without a
\* policy keyword or country-pair pattern is not relevant; "Shanghai
\* Disneyland reopens" / "tourists return" is NOT relevant, and "US-China
\* trade talks resume" / "tariffs discussed" is relevant.
C8_ConjunctiveGate ==
    cl_pc # "input" =>
        LET text == JoinLower(cl_title, cl_summary)
        IN  /\ (has_china(text) /\ ~has_policy(text) /\ ~has_relation(text)) => ~cl_relevant
            /\ (cl_title = "Shanghai Disneyland reopens" /\ cl_summary = "tourists return")
                    => ~cl_relevant
            /\ (cl_title = "US-China trade talks resume" /\ cl_summary = "tariffs discussed")
                    => cl_relevant

ScoredCategory == cl_score.d["category"].s

\* C9 as claimed: the category follows the precedence Hong Kong > Trade >
\* Technology > Military > ...: "hong kong" with a trade keyword gives
\* "Hong Kong", and a technology with a military keyword gives "Technology".
C9_ClaimedPrecedence ==
    cl_pc = "scored" =>
        LET text == JoinLower(cl_title, cl_summary)
            hongkong == Contains(text, "hong kong")
            trade == AnyKeywordIn(text, trade_keywords)
            tech == AnyKeywordIn(text, tech_keywords)
            military == AnyKeywordIn(text, military_keywords)
        IN  /\ (hongkong /\ trade) => ScoredCategory = "Hong Kong"
            /\ (~hongkong /\ ~trade /\ tech /\ military) => ScoredCategory = "Technology"

\* the keyword groups of the rule-based scorer, in the order found in the code
CodePrecedence ==
    << <<"Trade", trade_keywords>>, <<"Military", military_keywords>>,
       <<"Technology", tech_keywords>> >>

\* C9 as amended: the category is that of the first matching group in the
\* order Trade > Military > Technology, and "Other" when none matches; so
\* "hong kong" with a trade keyword gives "Trade" and a technology with a
\* military keyword (and no trade keyword) gives "Military".
C9_CodePrecedence ==
    cl_pc = "scored" =>
        LET text == JoinLower(cl_title, cl_summary)
            hits == {i \in DOMAIN CodePrecedence : AnyKeywordIn(text, CodePrecedence[i][2])}
        IN  /\ hits = {} => ScoredCategory = "Other"
            /\ hits # {} =>
                 ScoredCategory = CodePrecedence[CHOOSE i \in hits : \A j \in hits : i <= j][1]
            /\ ScoredCategory # "Hong Kong"

\* C9 witness: a scored text with both a technology and a military keyword
\* and no trade keyword, categorized "Military"
C9_Witness ==
    /\ cl_pc = "scored"
    /\ LET text == JoinLower(cl_title, cl_summary)
       IN  /\ AnyKeywordIn(text, tech_keywords)
           /\ AnyKeywordIn(text, military_keywords)
           /\ ~AnyKeywordIn(text, trade_keywords)
    /\ ScoredCategory = "Military"

\* the weighted score 0.6 x importance + 0.4 x relevance, times ten, exactly
ExactWeighted(article) ==
    6 * ArticleGet(article, "importance_score").n + 4 * ArticleGet(article, "relevance_score").n

\* the relevant articles with their analysis, in input order: what the loop of
\* filter_and_analyze_articles hands to the sort
SoFiltered == FilterLoop(so_articles, so_worlds, 1, << >>).v

\* list is sorted by descending exact weighted score
DescendingExact(list) ==
    \A i, j \in DOMAIN list : i < j => ExactWeighted(list[i]) >= ExactWeighted(list[j])

\* the stable arrangement of list by descending exact weighted score
RECURSIVE StableExact(_)
StableExact(list) ==
    IF Len(list) = 0 THEN << >>
    ELSE LET sorted == StableExact(SubSeq(list, 1, Len(list) - 1))
             item == list[Len(list)]
             smaller == {i \in DOMAIN sorted : ExactWeighted(sorted[i]) < ExactWeighted(item)}
             at == IF smaller = {} THEN Len(sorted) + 1
                   ELSE CHOOSE i \in smaller : \A j \in smaller : i <= j
         IN  SubSeq(sorted, 1, at - 1) \o <<item>> \o SubSeq(sorted, at, Len(sorted))

\* C10: filter_and_analyze_articles returns the relevant articles ordered by
\* 0.6 x importance + 0.4 x relevance, descending, and two articles of equal
\* weighted score keep the relative order they had in the input list.
C10_StableByWeightedScore ==
    so_pc = "done" =>
        /\ DescendingExact(so_result)
        /\ so_result = StableExact(SoFiltered)

\* C5: in fetch_news a feed whose fetching or processing fails at any point,
\* also partway through its entries, contributes no article to the result,
\* and every feed of the list is polled all the same.
C5_FailedFeedContributesNothing ==
    f_pc = "done" =>
        /\ f_next = Len(feeds) + 1
        /\ \A i \in f_failed : \A k \in DOMAIN f_result : f_result[k].source # feeds[i]

\* the place of a strategy in the order of get_ai_analysis, by the name it is
\* recorded under and by the entries its attempts leave in sc_log
StrategyRank(source) ==
    CASE source = "groq" -> 1
      [] source = "ollama" -> 2
      [] source = "huggingface" -> 3
      [] source = "rule_based" -> 4
      [] OTHER -> 0

EntryRank(entry) ==
    CASE entry \in {"groq_request", "sleep"} -> 1
      [] entry = "ollama_request" -> 2
      [] entry = "hf_request" -> 3
      [] OTHER -> 0

LogRequests == {i \in DOMAIN sc_log : sc_log[i] # "result"}

\* C11: get_ai_analysis tries Groq, then Ollama, then HuggingFace, then the
\* rule-based scorer; once a strategy hands back a result no later strategy is
\* attempted, and the record returned names, as ai_source, the strategy that
\* produced it.
C11_FirstSuccessWins ==
    /\ \A i, j \in LogRequests : i < j => EntryRank(sc_log[i]) <= EntryRank(sc_log[j])
    /\ \A i \in DOMAIN sc_log : sc_log[i] = "result" => i = Len(sc_log)
    /\ sc_pc = "done" =>
          /\ HasKey(sc_result, "ai_source")
          /\ LET rank == StrategyRank(sc_result.d["ai_source"].s)
                 handed == Len(sc_log) > 0 /\ sc_log[Len(sc_log)] = "result"
             IN  /\ rank \in 1..4
                 /\ \A i \in LogRequests : EntryRank(sc_log[i]) <= rank
                 /\ rank < 4 => /\ handed
                                /\ EntryRank(sc_log[Len(sc_log) - 1]) = rank
                 /\ rank = 4 => ~handed
                 /\ (rank > 1 /\ sc_env.groq_key) => \E i \in LogRequests : EntryRank(sc_log[i]) = 1
                 /\ rank > 2 => \E i \in LogRequests : EntryRank(sc_log[i]) = 2
                 /\ (rank > 3 /\ sc_env.hf_key) => \E i \in LogRequests : EntryRank(sc_log[i]) = 3

\* C11 witness: Groq was asked and gave nothing, Ollama handed back a result,
\* and the record returned is tagged ollama
C11_Witness ==
    /\ sc_pc = "done"
    /\ sc_env.groq_key
    /\ sc_env.hf_key
    /\ HasKey(sc_result, "ai_source")
    /\ sc_result.d["ai_source"] = StrVal("ollama")
    /\ \E i \in DOMAIN sc_log : sc_log[i] = "groq_request"
    /\ sc_log[Len(sc_log)] = "result"

GroqRequests == {i \in DOMAIN sc_log : sc_log[i] = "groq_request"}

\* C12: analyze_article_with_groq makes at most max_retries requests; a failed
\* attempt that is followed by another one (transport failure, non-200 status,
\* unparsable response) is followed by the delay first; and after the last
\* failed attempt it returns None, so that the next strategy is tried.
C12_RetryWithDelay ==
    /\ Cardinality(GroqRequests) <= max_retries
    /\ \A i \in GroqRequests : (i + 1) \in DOMAIN sc_log => sc_log[i + 1] # "groq_request"
    /\ sc_attempt = max_retries => sc_pc # "groq"
    /\ sc_pc = "ollama" => sc_result = None

\* the entries of the feeds polled whose iteration did not raise, as pairs
\* <<feed, position>>
EntriesPolled ==
    { p \in (DOMAIN f_polled) \X (1..MaxEntries) :
        /\ p[1] \notin f_failed
        /\ f_polled[p[1]].t = "response"
        /\ p[2] \in DOMAIN f_polled[p[1]].entries }

\* C13: a feed entry none of whose date fields can be parsed is not dropped by
\* fetch_news: unless max_articles_per_source entries precede it in its feed,
\* it is among the fetched articles, with the current time as published time.
C13_UndatedFallsBackToNow ==
    f_pc = "done" =>
        \A p \in EntriesPolled :
            LET entry == f_polled[p[1]].entries[p[2]]
            IN  (ParseDate(entry, f_dateutil) = NoDate /\ p[2] <= max_articles_per_source) =>
                    \E k \in DOMAIN f_all :
                        /\ f_all[k].link = entry.link
                        /\ f_all[k].source = feeds[p[1]]
                        /\ f_all[k].published = Now

CountIn(log, entry) == Cardinality({i \in DOMAIN log : log[i] = entry})

\* C14: in a run of main that completes, the dedup-set file is read exactly
\* once, before any fetch, and written exactly once, after the email step, the
\* write being the last action of the run.
C14_ReadOnceWriteOnce ==
    /\ CountIn(io_log, "read") <= 1
    /\ CountIn(io_log, "write") <= 1
    /\ (io_log # << >>) => io_log[1] = "read"
    /\ pc = "finished" =>
          /\ CountIn(io_log, "read") = 1
          /\ CountIn(io_log, "write") = 1
          /\ io_log[Len(io_log)] = "write"
          /\ io_log[Len(io_log) - 1] = "send"

=============================================================================
